---- MODULE Spec2Model ----
(***************************************************************************)
(* A model of the three benchmark clients of the repository:               *)
(*   MT25062_Part_A1_Client.c  two-copy      (send_all on one buffer)      *)
(*   MT25062_Part_A2_Client.c  one-copy      (sendmsg over an iovec)       *)
(*   MT25062_Part_A3_Client.c  zero-copy     (sendmsg MSG_ZEROCOPY)        *)
(* The variable strategy says which of the three programs is running.  A   *)
(* state holds main's position, every worker thread's position, locals     *)
(* and result fields, the Message Store, and for each connection the bytes *)
(* written to it and the kernel's zero-copy bookkeeping.  The variable srv  *)
(* holds one connection handler of the server MT25062_Part_A3_Server.c     *)
(* with the peer it receives from.                                         *)
(***************************************************************************)
EXTENDS Integers, Sequences, FiniteSets, TLC

(* ------------------------------ bounds -------------------------------- *)
MaxThreads  == 3   \* size of the tids / targs arrays the model allocates
MaxMsgSize  == 17  \* largest msg_size argument tried
MaxDuration == 1   \* the duration argument tried (clock ticks)
MaxIter     == 3   \* send-loop iterations a worker performs at most
MaxCalls    == 2   \* send() calls one send_all performs at most
MaxLatency  == 1   \* largest msg_end - msg_start sample
MaxChunks   == 2   \* segments of payload the server's peer sends at most
PinLimit    == 1   \* pinned transmissions after which the kernel says ENOBUFS

(* ------------------------- program constants -------------------------- *)
NUM_FIELDS   == 8
DRAIN_PERIOD == 64
ConfigSize   == 8
GIGA         == 1000000000
EINTR        == 4
EIO          == 5
EPIPE        == 32
ECONNRESET   == 104
ENOBUFS      == 105

Threads   == 0 .. (MaxThreads - 1)
Strategies == {"two_copy", "one_copy", "zero_copy"}
MsgSizes  == {NUM_FIELDS - 1, NUM_FIELDS, NUM_FIELDS + 1, MaxMsgSize}
Durations == {MaxDuration}
Latencies == {0, MaxLatency}
\* Values an uninitialised heap byte may hold.
HeapBytes == {0, 66}

Min(a, b) == IF a < b THEN a ELSE b
Max(a, b) == IF a > b THEN a ELSE b

\* C integer division truncates toward zero.
CDiv(a, b) == IF a >= 0 THEN a \div b ELSE -((-a) \div b)

RECURSIVE Concat(_)
\* The concatenation of a sequence of sequences.
Concat(ss) == IF ss = <<>> THEN <<>> ELSE Head(ss) \o Concat(Tail(ss))

RECURSIVE SumSeq(_)
SumSeq(s) == IF s = <<>> THEN 0 ELSE Head(s) + SumSeq(Tail(s))

Prefix(s, n) == SubSeq(s, 1, Min(Len(s), Max(n, 0)))

(* ----------------------------- config_t ------------------------------- *)
\* The int held by four bytes in memory.
Int32FromBytes(b) ==
    b[1] + 256 * b[2] + 65536 * b[3]
      + 16777216 * (IF b[4] >= 128 THEN b[4] - 256 ELSE b[4])

\* The four bytes of a 32-bit int in memory (little-endian, two's complement).
\* (\div rounds down as an arithmetic shift does, % is never negative.)
Int32Bytes(x) ==
    << x % 256, (x \div 256) % 256, (x \div 65536) % 256, (x \div 16777216) % 256 >>

\* The bytes of a config_t { msg_size, duration } as send() reads them.
ConfigBytes(m, d) == Int32Bytes(m) \o Int32Bytes(d)

(* --------------------------- Message Store ---------------------------- *)
\* msg->field_size as alloc_message computes it.
FieldSize(m) == CDiv(m, NUM_FIELDS)

\* The 8 fields after alloc_message: field i holds field_size bytes 'A' + i.
AllocFields(fs) == [i \in 1 .. NUM_FIELDS |-> [j \in 1 .. fs |-> 65 + (i - 1)]]

NoFields == [i \in 1 .. NUM_FIELDS |-> <<>>]

\* The bytes sendmsg gathers from iov[0..7]: each field in order.
IovBytes(m) == Concat(m.fields)

\* The serialization loop of the two-copy client: the fields are copied to the
\* front of send_buf, what lies behind offset 8 * field_size keeps its value.
Serialize(buf, m) ==
    LET packed == Concat(m.fields)
    IN  packed \o SubSeq(buf, Len(packed) + 1, Len(buf))

(* ------------------------------ send_all ------------------------------ *)
\* One send() call is described by a number r: r > 0 is the count the kernel
\* accepted (never more than was asked), r < 0 is a failure with errno = -r.
\* NextOffset for a loop that counts remaining down but leaves p where it is.
NextOffsetStuck(p, sent) == p

\* p += sent.
NextOffset(p, sent) == p + sent

\* The while loop of send_all from its i-th send() call on: p is the offset of
\* the next byte in buf, out the bytes the kernel has accepted so far, eintrs
\* the calls that failed with EINTR.  send(sock, p, remaining) accepts the
\* first Min(script[i], remaining) bytes behind p.
RECURSIVE send_all_loop(_, _, _, _, _, _, _)
send_all_loop(buf, len, p, remaining, script, i, acc) ==
    IF remaining <= 0
    THEN [ret |-> len, errno |-> 0, accepted |-> Len(acc.out), out |-> acc.out,
          calls |-> i - 1, eintrs |-> acc.eintrs]
    ELSE IF i > Len(script)
    THEN [ret |-> 0, errno |-> 0, accepted |-> Len(acc.out), out |-> acc.out,
          calls |-> Len(script) + 1, eintrs |-> acc.eintrs]
    ELSE IF script[i] < 0
    THEN IF -script[i] = EINTR
         THEN send_all_loop(buf, len, p, remaining, script, i + 1,
                            [acc EXCEPT !.eintrs = @ + 1])
         ELSE [ret |-> -1, errno |-> -script[i], accepted |-> Len(acc.out),
               out |-> acc.out, calls |-> i, eintrs |-> acc.eintrs]
    ELSE LET sent == Min(script[i], remaining)
         IN  send_all_loop(buf, len, NextOffset(p, sent), remaining - sent, script,
                           i + 1, [acc EXCEPT !.out = @ \o SubSeq(buf, p + 1, p + sent)])

\* send_all(sock, buf, len, 0) when the successive send() calls behave as
\* script says; calls = Len(script) exactly when the script describes a whole run.
send_all(buf, len, script) ==
    send_all_loop(buf, len, 0, len, script, 1, [out |-> <<>>, eintrs |-> 0])

\* Results of one send() inside send_all.
SendResults == {1, NUM_FIELDS, MaxMsgSize + 1, -EINTR, -EPIPE, -ECONNRESET, -EIO}

SendScripts == UNION {[1 .. n -> SendResults] : n \in 1 .. MaxCalls}

(* -------------------------- drain_completions ------------------------- *)
\* The recvmsg(MSG_ERRQUEUE | MSG_DONTWAIT) loop: one queued notification is
\* taken per successful read, the read that finds none ends the loop.  Each
\* notification stands for the number of transmissions it covers.
\* drain_loop for a loop that is left behind its first read.
DrainLoopOneRead(q, reads, acked) ==
    IF q = <<>>
    THEN [errq |-> q, reads |-> reads + 1, acked |-> acked]
    ELSE [errq |-> Tail(q), reads |-> reads + 1, acked |-> acked + Head(q)]

RECURSIVE drain_loop(_, _, _)
drain_loop(q, reads, acked) ==
    IF q = <<>>
    THEN [errq |-> q, reads |-> reads + 1, acked |-> acked]
    ELSE drain_loop(Tail(q), reads + 1, acked + Head(q))

drain_completions(q) == drain_loop(q, 0, 0)

(* ------------------------------ rationals ----------------------------- *)
RECURSIVE GCD(_, _)
GCD(a, b) == IF b = 0 THEN a ELSE GCD(b, a % b)

\* The double n / d, kept exact as a reduced fraction (d > 0).
Rat(n, d) == LET g == GCD(n, d) IN [n |-> n \div g, d |-> d \div g]
RatZero == [n |-> 0, d |-> 1]
RatAdd(x, y) == Rat(x.n * y.d + y.n * x.d, x.d * y.d)

\* RatDivInt without the division.
RatDivIntUndivided(x, k) == x

RatDivInt(x, k) == Rat(x.n, x.d * k)

\* x * y, reduced crosswise before the products are taken.
RatMul(x, y) ==
    LET g1 == GCD(x.n, y.d)
        g2 == GCD(y.n, x.d)
    IN  [n |-> (x.n \div g1) * (y.n \div g2), d |-> (x.d \div g2) * (y.d \div g1)]

\* Throughput without the factor 8: bytes, not bits, per nanosecond.
ThroughputInBytes(total_bytes, elapsed) ==
    IF elapsed = 0
    THEN [n |-> IF total_bytes > 0 THEN 1 ELSE 0, d |-> 0]
    ELSE RatMul(Rat(total_bytes, GIGA), Rat(1, elapsed))

\* throughput_gbps of print_results: (total_bytes * 8.0) / (elapsed * 1e9).
\* With elapsed = 0 the double is inf (written 1/0) or, for 0 bytes, NaN
\* (written 0/0).
Throughput(total_bytes, elapsed) ==
    IF elapsed = 0
    THEN [n |-> IF total_bytes > 0 THEN 1 ELSE 0, d |-> 0]
    ELSE RatMul(Rat(total_bytes, GIGA), Rat(8, elapsed))

(* ------------------------------- state -------------------------------- *)
VARIABLES
    strategy,   \* which client program runs: its print_results tag
    msg_size,   \* argv[3]
    duration,   \* argv[5]
    threads,    \* argv[4]
    now,        \* the wall clock read by get_time_sec
    proc,       \* "running", or how the process ended
    mpc,        \* main's position
    mi,         \* main's loop index i
    report,     \* the values of the RESULT line, once printed
    pc,         \* each thread's position in client_thread
    targs,      \* targs[i]: the result fields of thread_args_t
    loc,        \* client_thread's locals
    sock,       \* the connection: descriptor state, bytes written, zero-copy state
    msg,        \* the message_t of each thread
    send_buf,   \* the two-copy client's serialization buffer
    gh,         \* history of each thread: calls made so far
    srv         \* the server's handle_client thread and its connection

vars == << strategy, msg_size, duration, threads, now, proc, mpc, mi, report,
           pc, targs, loc, sock, msg, send_buf, gh, srv >>

args == << strategy, msg_size, duration, threads >>

\* The variables of the clients.
clientvars == << args, now, proc, mpc, mi, report, pc, targs, loc, sock, msg,
                send_buf, gh >>

\* srv while no connection has been handed to a handler.
ServerIdle ==
    [pc |-> "idle", g_running |-> TRUE, peer |-> "open", cfg_in |-> <<>>,
     inbuf |-> 0, chunks |-> 0, client_fd |-> "open", cfg_bytes |-> 0,
     msg_size |-> 0, recv_buf |-> "none", total_bytes |-> 0, bytes |-> 0,
     rets |-> <<>>, closes |-> 0, printed |-> FALSE, exit_reason |-> "none"]

\* ZeroResult when main leaves the malloc'ed targs as they are.
ZeroResultUninitialised ==
    [bytes_transferred |-> 66, elapsed_time |-> 0, avg_latency_us |-> [n |-> 0, d |-> 1]]

\* targs[i] as main sets it before pthread_create.
ZeroResult == [bytes_transferred |-> 0, elapsed_time |-> 0, avg_latency_us |-> RatZero]

InitLocals == [start_time |-> 0, total_bytes |-> 0, msg_count |-> 0,
               total_latency |-> 0, drain_counter |-> 0, sent |-> 0, errno |-> 0]

InitSock == [state |-> "none", wire |-> <<>>, zerocopy |-> FALSE,
             inflight |-> 0, errq |-> <<>>]

InitMsg == [state |-> "none", field_size |-> 0, fields |-> NoFields]

InitBuf == [state |-> "none", bytes |-> <<>>]

\* What has happened to a worker so far.  calls and eintrs tell of the
\* two-copy client's last send_all (its send() calls, those that failed with
\* EINTR); in the other clients eintrs counts the sendmsg calls that failed
\* with EINTR.
InitHistory == [connects |-> 0, hs_calls |-> 0, hs_ret |-> 0, zc_sent |-> 0,
                zc_acked |-> 0, drain_calls |-> 0, final_drains |-> 0,
                iters |-> 0, full |-> 0, short |-> 0, exit_reason |-> "none",
                frees |-> 0, closes |-> 0, records |-> 0,
                calls |-> 0, eintrs |-> 0, alloc_fail |-> "none"]

InitCommon ==
    /\ now = 0
    /\ proc = "running"
    /\ mpc = "spawn"
    /\ mi = 0
    /\ report = [printed |-> FALSE, total_bytes |-> 0, elapsed |-> 0,
                 avg_latency |-> RatZero, throughput |-> RatZero]
    /\ pc = [w \in Threads |-> "unborn"]
    /\ targs = [w \in Threads |-> ZeroResult]
    /\ loc = [w \in Threads |-> InitLocals]
    /\ sock = [w \in Threads |-> InitSock]
    /\ msg = [w \in Threads |-> InitMsg]
    /\ send_buf = [w \in Threads |-> InitBuf]
    /\ gh = [w \in Threads |-> InitHistory]

\* One worker, any of the three programs, any msg_size and duration.
Init ==
    /\ strategy \in Strategies
    /\ msg_size \in MsgSizes
    /\ duration \in Durations
    /\ threads = 1
    /\ InitCommon
    /\ srv = ServerIdle

(* -------------------------------- clock ------------------------------- *)
\* LoopCond with the operands of the subtraction exchanged.
LoopCondSwapped(w) == loc[w].start_time - now < duration

\* The while condition of the send loop: get_time_sec() - start_time < duration.
LoopCond(w) == now - loc[w].start_time < duration

\* Time passes.  The clock is only followed while a worker in its send loop
\* waits for its duration to elapse.
Tick ==
    /\ proc = "running"
    /\ \E w \in Threads : pc[w] = "loop" /\ now < loc[w].start_time + duration
    /\ now' = now + 1
    /\ UNCHANGED << srv, args, proc, mpc, mi, report, pc, targs, loc, sock, msg,
                    send_buf, gh >>

(* -------------------------------- main -------------------------------- *)
\* SpawnFailureReport for a main that prints its RESULT line before it
\* returns.
SpawnFailureReportPrinted(r) == [r EXCEPT !.printed = TRUE]

\* What the failure branch of the spawn loop does to the RESULT line:
\* perror and return EXIT_FAILURE leave it unprinted.
SpawnFailureReport(r) == r

\* One pass of the spawn loop: targs[i] is initialised and pthread_create is
\* called; created says whether it succeeded.  A failure returns EXIT_FAILURE
\* from main, which ends the process and every thread in it.
main_spawn(created) ==
    /\ proc = "running"
    /\ mpc = "spawn"
    /\ mi < threads
    /\ targs' = [targs EXCEPT ![mi] = ZeroResult]
    /\ IF created
       THEN /\ pc' = [pc EXCEPT ![mi] = "connect"]
            /\ mi' = mi + 1
            /\ UNCHANGED << proc, report >>
       ELSE /\ proc' = "exit_spawn"
            /\ report' = SpawnFailureReport(report)
            /\ UNCHANGED << pc, mi >>
    /\ UNCHANGED << srv, args, now, mpc, loc, sock, msg, send_buf, gh >>

\* The spawn loop ends and the join loop starts.
main_spawned ==
    /\ proc = "running"
    /\ mpc = "spawn"
    /\ mi >= threads
    /\ mpc' = "join"
    /\ mi' = 0
    /\ UNCHANGED << srv, args, now, proc, report, pc, targs, loc, sock, msg,
                    send_buf, gh >>

\* JoinReturns for a call that does not wait for the thread.
JoinReturnsAtOnce(i) == TRUE

\* pthread_join(tids[i], NULL) returns once thread i has terminated.
JoinReturns(i) == pc[i] = "done"

\* One pass of the join loop.
main_join ==
    /\ proc = "running"
    /\ mpc = "join"
    /\ mi < threads
    /\ JoinReturns(mi)
    /\ mi' = mi + 1
    /\ UNCHANGED << srv, args, now, proc, mpc, report, pc, targs, loc, sock, msg,
                    send_buf, gh >>

RECURSIVE SumBytes(_, _)
\* total_bytes after the aggregation loop has passed threads 0 .. n-1.
SumBytes(t, n) == IF n <= 0 THEN 0 ELSE SumBytes(t, n - 1) + t[n - 1].bytes_transferred

RECURSIVE SumLatency(_, _)
SumLatency(t, n) ==
    IF n <= 0 THEN RatZero ELSE RatAdd(SumLatency(t, n - 1), t[n - 1].avg_latency_us)

RECURSIVE MaxElapsed(_, _)
MaxElapsed(t, n) ==
    IF n <= 0 THEN 0
    ELSE IF t[n - 1].elapsed_time > MaxElapsed(t, n - 1)
         THEN t[n - 1].elapsed_time
         ELSE MaxElapsed(t, n - 1)

\* After the last join: the aggregation loop, print_results and return 0.
main_aggregate ==
    /\ proc = "running"
    /\ mpc = "join"
    /\ mi >= threads
    /\ report' = [printed |-> TRUE,
                  total_bytes |-> SumBytes(targs, threads),
                  elapsed |-> MaxElapsed(targs, threads),
                  avg_latency |-> RatDivInt(SumLatency(targs, threads), threads),
                  throughput |-> Throughput(SumBytes(targs, threads),
                                            MaxElapsed(targs, threads))]
    /\ mpc' = "done"
    /\ proc' = "exit_ok"
    /\ UNCHANGED << srv, args, now, mi, pc, targs, loc, sock, msg, send_buf, gh >>

(* --------------------- client_thread: connection setup ---------------- *)
\* Step 1: connect_to_server.  On failure the thread returns at once.  The
\* zero-copy client goes on to setsockopt, the others to the handshake.
client_connect(w, ok) ==
    /\ proc = "running"
    /\ pc[w] = "connect"
    /\ gh' = [gh EXCEPT ![w].connects = @ + 1]
    /\ IF ok
       THEN /\ sock' = [sock EXCEPT ![w].state = "open"]
            /\ pc' = [pc EXCEPT ![w] =
                        IF strategy = "zero_copy" THEN "setsockopt" ELSE "handshake"]
       ELSE /\ pc' = [pc EXCEPT ![w] = "done"]
            /\ UNCHANGED sock
    /\ UNCHANGED << srv, args, now, proc, mpc, mi, report, targs, loc, msg, send_buf >>

\* AfterSetsockoptPc for a thread that gives up when the option is refused.
AfterSetsockoptPcFatal(ok) == IF ok THEN "handshake" ELSE "done"

\* Where the thread goes after setsockopt: to the handshake, whatever the
\* call returned.
AfterSetsockoptPc(ok) == "handshake"

\* Step 2 of the zero-copy client: setsockopt(SO_ZEROCOPY).  A failure is
\* reported and the thread goes on; the socket then has no zero-copy mode.
client_setsockopt(w, ok) ==
    /\ proc = "running"
    /\ pc[w] = "setsockopt"
    /\ sock' = [sock EXCEPT ![w].zerocopy = ok]
    /\ pc' = [pc EXCEPT ![w] = AfterSetsockoptPc(ok)]
    /\ UNCHANGED << srv, args, now, proc, mpc, mi, report, targs, loc, msg, send_buf, gh >>

\* Results of send(sock, &config, sizeof(config), 0): failure, a short count,
\* the whole structure.
HandshakeResults == {-1, ConfigSize \div 2, ConfigSize}

\* HandshakeOk testing only that send did not fail.
HandshakeOkAnyCount(r) == r > 0

\* The test the handshake's return value must pass.
HandshakeOk(r) == r = ConfigSize

\* The configuration step: config is sent; unless send returned sizeof(config)
\* the socket is closed and the thread returns.
client_handshake(w, r) ==
    /\ proc = "running"
    /\ pc[w] = "handshake"
    /\ gh' = [gh EXCEPT ![w].hs_calls = @ + 1, ![w].hs_ret = r,
                        ![w].closes = IF HandshakeOk(r) THEN @ ELSE @ + 1]
    /\ sock' = [sock EXCEPT
                  ![w].wire = @ \o Prefix(ConfigBytes(msg_size, duration), r),
                  ![w].state = IF HandshakeOk(r) THEN @ ELSE "closed"]
    /\ pc' = [pc EXCEPT ![w] = IF HandshakeOk(r) THEN "alloc" ELSE "done"]
    /\ UNCHANGED << srv, args, now, proc, mpc, mi, report, targs, loc, msg, send_buf >>

(* ------------------- client_thread: buffers and locals ---------------- *)
\* What malloc may do in the allocation step: everything succeeds, the
\* message_t is NULL, a field is NULL, the two-copy send_buf is NULL.
MallocOutcomes == {"ok", "msg_null", "field_null", "buf_null"}

\* malloc(msg_size) returns uninitialised memory.  The first 8 * field_size
\* bytes are overwritten before they are ever read, so only the bytes behind
\* them are drawn from HeapBytes.
HeapTails(m) == [1 .. (m - NUM_FIELDS * FieldSize(m)) -> HeapBytes]

FreshBuf(m, tail) ==
    [j \in 1 .. m |-> IF j <= NUM_FIELDS * FieldSize(m) THEN 0
                      ELSE tail[j - NUM_FIELDS * FieldSize(m)]]

\* SendBufNullExits for a client that treats send_buf like the message.
SendBufNullExitsProcess == TRUE

\* Whether the two-copy client calls exit when malloc(msg_size) for send_buf
\* returns NULL: it does not, it frees the message, closes the socket and
\* returns from the thread.
SendBufNullExits == FALSE

\* alloc_message, the two-copy client's malloc of send_buf, and the
\* initialisation of the loop's locals.  alloc_message ends the process when
\* malloc fails or when field_size <= 0.
client_alloc(w, m, tail) ==
    /\ proc = "running"
    /\ pc[w] = "alloc"
    /\ m = "buf_null" => strategy = "two_copy"
    /\ tail \in (IF strategy = "two_copy" /\ m = "ok" /\ FieldSize(msg_size) > 0
                 THEN HeapTails(msg_size) ELSE {<<>>})
    /\ IF m = "msg_null"
       THEN /\ proc' = "exit_alloc"
            /\ gh' = [gh EXCEPT ![w].alloc_fail = "msg"]
            /\ UNCHANGED << pc, loc, sock, msg, send_buf >>
       ELSE IF FieldSize(msg_size) <= 0
       THEN /\ proc' = "exit_config"
            /\ UNCHANGED << pc, loc, sock, msg, send_buf, gh >>
       ELSE IF m = "field_null"
       THEN /\ proc' = "exit_alloc"
            /\ gh' = [gh EXCEPT ![w].alloc_fail = "field"]
            /\ UNCHANGED << pc, loc, sock, msg, send_buf >>
       ELSE IF m = "buf_null" /\ SendBufNullExits
       THEN /\ proc' = "exit_alloc"
            /\ gh' = [gh EXCEPT ![w].alloc_fail = "buf"]
            /\ UNCHANGED << pc, loc, sock, msg, send_buf >>
       ELSE IF m = "buf_null"
       THEN /\ msg' = [msg EXCEPT ![w] = [state |-> "freed",
                                          field_size |-> FieldSize(msg_size),
                                          fields |-> NoFields]]
            /\ sock' = [sock EXCEPT ![w].state = "closed"]
            /\ gh' = [gh EXCEPT ![w].frees = @ + 1, ![w].closes = @ + 1,
                                ![w].alloc_fail = "buf"]
            /\ pc' = [pc EXCEPT ![w] = "done"]
            /\ UNCHANGED << proc, loc, send_buf >>
       ELSE /\ msg' = [msg EXCEPT ![w] = [state |-> "live",
                                          field_size |-> FieldSize(msg_size),
                                          fields |-> AllocFields(FieldSize(msg_size))]]
            /\ send_buf' = IF strategy = "two_copy"
                           THEN [send_buf EXCEPT ![w] =
                                   [state |-> "live", bytes |-> FreshBuf(msg_size, tail)]]
                           ELSE send_buf
            /\ loc' = [loc EXCEPT ![w] = [InitLocals EXCEPT !.start_time = now]]
            /\ pc' = [pc EXCEPT ![w] = "loop"]
            /\ UNCHANGED << proc, sock, gh >>
    /\ UNCHANGED << srv, args, now, mpc, mi, report, targs >>

(* ------------------------ kernel: zero-copy state --------------------- *)
\* Transmissions the kernel has pinned pages for: those still being sent and
\* those whose notification waits in the error queue.
Pinned(w) == sock[w].inflight + SumSeq(sock[w].errq)

\* Zero-copy sends of w whose completion drain_completions has not consumed.
Outstanding(w) == gh[w].zc_sent - gh[w].zc_acked

\* The kernel finishes the k oldest transmissions in flight and queues their
\* notification on the error queue, as a new record or (merge) by widening
\* the range of the last queued one.  A closed socket has no queue.
KernelComplete(w, k, merge) ==
    /\ proc = "running"
    /\ k \in 1 .. sock[w].inflight
    /\ sock' = [sock EXCEPT
                  ![w].inflight = @ - k,
                  ![w].errq = IF sock[w].state # "open" THEN <<>>
                              ELSE IF merge /\ @ # <<>>
                              THEN [@ EXCEPT ![Len(@)] = @ + k]
                              ELSE Append(@, k)]
    /\ UNCHANGED << srv, args, now, proc, mpc, mi, report, pc, targs, loc, msg,
                    send_buf, gh >>

(* ----------------------- client_thread: send loop --------------------- *)
\* What one sendmsg over an iovec of total bytes may return.
SendmsgResults(total) == {total - 1, total, -EINTR, -EPIPE, -ECONNRESET, -EIO}

\* With MSG_ZEROCOPY on a zero-copy socket the call fails with ENOBUFS while
\* PinLimit transmissions are pinned.
ZcSendmsgResults(w, total) ==
    IF sock[w].zerocopy /\ Pinned(w) >= PinLimit
    THEN {-ENOBUFS, -EINTR, -EPIPE, -ECONNRESET, -EIO}
    ELSE SendmsgResults(total)

\* Account without msg_count += 1.
AccountNoCount(l, sent, lat) ==
    [l EXCEPT !.total_bytes = @ + sent, !.total_latency = @ + lat]

\* The three statements after a successful send.
Account(l, sent, lat) ==
    [l EXCEPT !.total_bytes = @ + sent, !.msg_count = @ + 1,
              !.total_latency = @ + lat]

\* AfterLoopPc when a break on a send error leaves past the final drain.
AfterLoopPcBreakSkipsDrain(reason) ==
    IF strategy = "zero_copy" /\ reason = "duration" THEN "final_drain" ELSE "record"

\* AfterLoopPc for an error block that returns from client_thread on an
\* error other than a reset, instead of leaving the loop.
AfterLoopPcErrorReturns(reason) ==
    IF reason = "error" THEN "free"
    ELSE IF strategy = "zero_copy" THEN "final_drain" ELSE "record"

\* Where a thread goes when it leaves the while loop.
AfterLoopPc(reason) == IF strategy = "zero_copy" THEN "final_drain" ELSE "record"

\* The if (sent < 0) block of each client.
A1_on_error(errno) ==
    IF errno = EPIPE \/ errno = ECONNRESET THEN "reset" ELSE "error"

\* A2_on_error without the EINTR test.
A2_on_error_NoEintr(errno) ==
    IF errno = EPIPE \/ errno = ECONNRESET THEN "reset" ELSE "error"

A2_on_error(errno) ==
    IF errno = EPIPE \/ errno = ECONNRESET THEN "reset"
    ELSE IF errno = EINTR THEN "retry" ELSE "error"

\* A3_on_error without the ENOBUFS drain: the send is just retried.
A3_on_error_NoDrain(errno) ==
    IF errno = ENOBUFS THEN "retry"
    ELSE IF errno = EPIPE \/ errno = ECONNRESET THEN "reset"
    ELSE IF errno = EINTR THEN "retry" ELSE "error"

A3_on_error(errno) ==
    IF errno = ENOBUFS THEN "drain_retry"
    ELSE IF errno = EPIPE \/ errno = ECONNRESET THEN "reset"
    ELSE IF errno = EINTR THEN "retry" ELSE "error"

\* One pass of the two-copy loop body: serialize, send_all, account.
A1_iteration(w, script, lat) ==
    LET buf == Serialize(send_buf[w].bytes, msg[w])
        res == send_all(buf, msg_size, script)
        l1  == [loc[w] EXCEPT !.sent = res.ret,
                              !.errno = IF res.ret < 0 THEN res.errno ELSE @]
    IN  /\ res.calls = Len(script)
        /\ send_buf' = [send_buf EXCEPT ![w].bytes = buf]
        /\ sock' = [sock EXCEPT ![w].wire = @ \o res.out]
        /\ IF res.ret < 0
           THEN /\ loc' = [loc EXCEPT ![w] = l1]
                /\ pc' = [pc EXCEPT ![w] = AfterLoopPc(A1_on_error(res.errno))]
                /\ gh' = [gh EXCEPT ![w].iters = @ + 1,
                                    ![w].calls = res.calls,
                                    ![w].eintrs = res.eintrs,
                                    ![w].exit_reason = A1_on_error(res.errno)]
           ELSE /\ loc' = [loc EXCEPT ![w] = Account(l1, res.ret, lat)]
                /\ gh' = [gh EXCEPT ![w].iters = @ + 1, ![w].full = @ + 1,
                                    ![w].calls = res.calls,
                                    ![w].eintrs = res.eintrs]
                /\ UNCHANGED pc

\* A2_FirstByte for a loop that goes on behind the bytes of a short count.
A2_FirstByteResumes(l, total) == IF l.sent > 0 /\ l.sent < total THEN l.sent ELSE 0

\* The offset in the message at which a sendmsg of the one-copy loop starts:
\* mhdr keeps pointing at iov[0..7] whatever the last call returned (l).
A2_FirstByte(l, total) == 0

\* One pass of the one-copy loop body: sendmsg over iov[0..7], account.
A2_iteration(w, r, lat) ==
    LET total == NUM_FIELDS * msg[w].field_size
        sent  == IF r < 0 THEN -1 ELSE r
        l1    == [loc[w] EXCEPT !.sent = sent, !.errno = IF r < 0 THEN -r ELSE @]
    IN  /\ r \in SendmsgResults(total)
        /\ UNCHANGED send_buf
        /\ IF sent < 0
           THEN /\ UNCHANGED sock
                /\ IF A2_on_error(-r) = "retry"
                   THEN /\ loc' = [loc EXCEPT ![w] = l1]
                        /\ gh' = [gh EXCEPT ![w].iters = @ + 1,
                                            ![w].eintrs = @ + 1]
                        /\ UNCHANGED pc
                   ELSE /\ loc' = [loc EXCEPT ![w] = l1]
                        /\ pc' = [pc EXCEPT ![w] = AfterLoopPc(A2_on_error(-r))]
                        /\ gh' = [gh EXCEPT ![w].iters = @ + 1,
                                            ![w].exit_reason = A2_on_error(-r)]
           ELSE /\ sock' = [sock EXCEPT ![w].wire =
                             @ \o SubSeq(IovBytes(msg[w]), A2_FirstByte(loc[w], total) + 1,
                                         Min(total, A2_FirstByte(loc[w], total) + sent))]
                /\ loc' = [loc EXCEPT ![w] = Account(l1, sent, lat)]
                /\ gh' = [gh EXCEPT ![w].iters = @ + 1,
                                    ![w].full = IF sent = total THEN @ + 1 ELSE @,
                                    ![w].short = IF sent < total THEN @ + 1 ELSE @]
                /\ UNCHANGED pc

\* PeriodicDrainDue with > for >=.
PeriodicDrainDueLate(c) == c > DRAIN_PERIOD

\* The test of the periodic drain on the incremented counter:
\* ++drain_counter >= 64.
PeriodicDrainDue(c) == c >= DRAIN_PERIOD

\* One pass of the zero-copy loop body: sendmsg(MSG_ZEROCOPY), the ENOBUFS
\* drain, accounting, and the drain after every DRAIN_PERIOD-th send.
A3_iteration(w, r, lat) ==
    LET total == NUM_FIELDS * msg[w].field_size
        sent  == IF r < 0 THEN -1 ELSE r
        l1    == [loc[w] EXCEPT !.sent = sent, !.errno = IF r < 0 THEN -r ELSE @]
        d     == drain_completions(sock[w].errq)
        pin   == IF sock[w].zerocopy THEN 1 ELSE 0
    IN  /\ r \in ZcSendmsgResults(w, total)
        /\ UNCHANGED send_buf
        /\ IF sent < 0
           THEN IF A3_on_error(-r) = "drain_retry"
                THEN /\ sock' = [sock EXCEPT ![w].errq = d.errq]
                     /\ loc' = [loc EXCEPT ![w] = l1]
                     /\ gh' = [gh EXCEPT ![w].iters = @ + 1,
                                         ![w].drain_calls = @ + 1,
                                         ![w].zc_acked = @ + d.acked]
                     /\ UNCHANGED pc
                ELSE IF A3_on_error(-r) = "retry"
                THEN /\ loc' = [loc EXCEPT ![w] = l1]
                     /\ gh' = [gh EXCEPT ![w].iters = @ + 1,
                                         ![w].eintrs = @ + 1]
                     /\ UNCHANGED << pc, sock >>
                ELSE /\ loc' = [loc EXCEPT ![w] = l1]
                     /\ pc' = [pc EXCEPT ![w] = AfterLoopPc(A3_on_error(-r))]
                     /\ gh' = [gh EXCEPT ![w].iters = @ + 1,
                                         ![w].exit_reason = A3_on_error(-r)]
                     /\ UNCHANGED sock
           ELSE LET l2 == Account(l1, sent, lat)
                    periodic == PeriodicDrainDue(l2.drain_counter + 1)
                IN  \E c \in 0 .. (IF periodic THEN pin ELSE 0) :
                    \* the kernel may have completed this transmission (c = 1)
                    \* by the time the periodic drain reads the error queue
                    LET d2 == drain_completions(IF c = 1 THEN Append(sock[w].errq, 1)
                                                ELSE sock[w].errq)
                    IN
                    /\ sock' = [sock EXCEPT
                                  ![w].wire = @ \o Prefix(IovBytes(msg[w]), sent),
                                  ![w].inflight = @ + pin - c,
                                  ![w].errq = IF periodic THEN d2.errq ELSE @]
                    /\ loc' = [loc EXCEPT ![w] =
                                 [l2 EXCEPT !.drain_counter =
                                    IF periodic THEN 0 ELSE @ + 1]]
                    /\ gh' = [gh EXCEPT
                                ![w].iters = @ + 1,
                                ![w].full = IF sent = total THEN @ + 1 ELSE @,
                                ![w].short = IF sent < total THEN @ + 1 ELSE @,
                                ![w].zc_sent = @ + pin,
                                ![w].drain_calls = IF periodic THEN @ + 1 ELSE @,
                                ![w].zc_acked = IF periodic THEN @ + d2.acked ELSE @]
                    /\ UNCHANGED pc

\* Passes of the loop body a worker is followed through: MaxIter when it is
\* the only worker, one when several workers run side by side.
IterCap == IF threads = 1 THEN MaxIter ELSE 1

\* send() calls one send_all is followed through, and the latency samples
\* tried: all of them for a single worker, one call and one sample when
\* several workers run side by side.
CallCap == IF threads = 1 THEN MaxCalls ELSE 1
LoopLatencies == IF threads = 1 THEN Latencies ELSE {MaxLatency}

\* The while loop of client_thread: the condition is evaluated, and either the
\* loop is left or its body runs once.
client_loop(w) ==
    /\ proc = "running"
    /\ pc[w] = "loop"
    /\ IF LoopCond(w)
       THEN /\ gh[w].iters < IterCap
            /\ \E lat \in LoopLatencies :
                 CASE strategy = "two_copy" ->
                        \E script \in {s \in SendScripts : Len(s) <= CallCap} :
                           A1_iteration(w, script, lat)
                   [] strategy = "one_copy" ->
                        \E r \in SendmsgResults(NUM_FIELDS * msg[w].field_size) :
                           A2_iteration(w, r, lat)
                   [] strategy = "zero_copy" ->
                        \E r \in ZcSendmsgResults(w, NUM_FIELDS * msg[w].field_size) :
                           A3_iteration(w, r, lat)
       ELSE /\ pc' = [pc EXCEPT ![w] = AfterLoopPc("duration")]
            /\ gh' = [gh EXCEPT ![w].exit_reason = "duration"]
            /\ UNCHANGED << loc, sock, send_buf >>
    /\ UNCHANGED << srv, args, now, proc, mpc, mi, report, targs, msg >>

(* ---------------------- client_thread: after the loop ----------------- *)
\* The zero-copy client's drain_completions call behind the loop.
client_final_drain(w) ==
    /\ proc = "running"
    /\ pc[w] = "final_drain"
    /\ LET d == drain_completions(sock[w].errq)
       IN  /\ sock' = [sock EXCEPT ![w].errq = d.errq]
           /\ gh' = [gh EXCEPT ![w].drain_calls = @ + 1,
                               ![w].final_drains = @ + 1,
                               ![w].zc_acked = @ + d.acked]
    /\ pc' = [pc EXCEPT ![w] = "record"]
    /\ UNCHANGED << srv, args, now, proc, mpc, mi, report, targs, loc, msg, send_buf >>

\* ResultSlot for workers that were all handed the first element of targs.
ResultSlotShared(w) == 0

\* The element of targs worker w was given as its argument: &targs[i].
ResultSlot(w) == w

\* elapsed is taken and the three result fields of targs are written.
client_record(w) ==
    /\ proc = "running"
    /\ pc[w] = "record"
    /\ targs' = [targs EXCEPT ![ResultSlot(w)] =
                   [bytes_transferred |-> loc[w].total_bytes,
                    elapsed_time |-> now - loc[w].start_time,
                    avg_latency_us |-> IF loc[w].msg_count > 0
                                       THEN Rat(loc[w].total_latency, loc[w].msg_count)
                                       ELSE RatZero]]
    /\ gh' = [gh EXCEPT ![w].records = @ + 1]
    /\ pc' = [pc EXCEPT ![w] = "free"]
    /\ UNCHANGED << srv, args, now, proc, mpc, mi, report, loc, sock, msg, send_buf >>

\* free(send_buf) in the two-copy client, and free_message(msg).
client_free(w) ==
    /\ proc = "running"
    /\ pc[w] = "free"
    /\ send_buf' = [send_buf EXCEPT ![w] =
                      IF strategy = "two_copy" THEN [state |-> "freed", bytes |-> <<>>]
                      ELSE @]
    /\ msg' = [msg EXCEPT ![w].state = "freed", ![w].fields = NoFields]
    /\ gh' = [gh EXCEPT ![w].frees = @ + 1]
    /\ pc' = [pc EXCEPT ![w] = "close"]
    /\ UNCHANGED << srv, args, now, proc, mpc, mi, report, targs, loc, sock >>

\* close(sock); return NULL.
client_close(w) ==
    /\ proc = "running"
    /\ pc[w] = "close"
    /\ sock' = [sock EXCEPT ![w].state = "closed", ![w].errq = <<>>]
    /\ gh' = [gh EXCEPT ![w].closes = @ + 1]
    /\ pc' = [pc EXCEPT ![w] = "done"]
    /\ UNCHANGED << srv, args, now, proc, mpc, mi, report, targs, loc, msg, send_buf >>

(* ------------------------- server: handle_client ---------------------- *)
\* The peer of the handler's connection: it writes payload in segments of
\* these sizes, closes its end, or resets the connection.
ChunkSizes == {1, NUM_FIELDS}

peer_send(n) ==
    /\ srv.pc \notin {"idle", "done"}
    /\ srv.peer = "open"
    /\ Len(srv.cfg_in) = ConfigSize
    /\ srv.chunks < MaxChunks
    /\ srv' = [srv EXCEPT !.inbuf = @ + n, !.chunks = @ + 1]
    /\ UNCHANGED clientvars

peer_close(how) ==
    /\ srv.pc \notin {"idle", "done"}
    /\ srv.peer = "open"
    /\ srv' = [srv EXCEPT !.peer = how]
    /\ UNCHANGED clientvars

\* SIGINT or SIGTERM is delivered.
handle_signal ==
    /\ srv.pc \notin {"idle", "done"}
    /\ srv.g_running
    /\ srv' = [srv EXCEPT !.g_running = FALSE]
    /\ UNCHANGED clientvars

\* What recv(client_fd, buf, len, flags) returns on the connection as it
\* stands, queued being the bytes that wait in the socket; no value while
\* the call blocks.  With MSG_WAITALL the call waits for len bytes unless the
\* stream ends first; without, it returns what is there, at most len (one
\* byte stands for every shorter count).
RecvResults(queued, len, waitall) ==
    IF srv.peer = "reset" THEN {-1}
    ELSE IF waitall
    THEN IF queued >= len THEN {len}
         ELSE IF srv.peer = "closed" THEN {queued} ELSE {}
    ELSE IF queued > 0 THEN {1, Min(len, queued)}
         ELSE IF srv.peer = "closed" THEN {0} ELSE {}

\* ConfigComplete for a handler content with any bytes of the Config.
ConfigCompleteAny(n) == n > 0

\* cfg_bytes != sizeof(config), negated.
ConfigComplete(n) == n = ConfigSize

\* recv(client_fd, &config, sizeof(config), MSG_WAITALL) and the test of its
\* return value: an incomplete Config ends the handler.
handle_client_config ==
    /\ srv.pc = "config"
    /\ \E r \in RecvResults(Len(srv.cfg_in), ConfigSize, TRUE) :
          srv' = IF ConfigComplete(r)
                 THEN [srv EXCEPT !.cfg_bytes = r,
                                  !.msg_size = Int32FromBytes(SubSeq(srv.cfg_in, 1, 4)),
                                  !.pc = "malloc"]
                 ELSE [srv EXCEPT !.cfg_bytes = r, !.client_fd = "closed",
                                  !.closes = @ + 1, !.exit_reason = "config",
                                  !.pc = "done"]
    /\ UNCHANGED clientvars

\* recv_buf = malloc(msg_size); a NULL ends the handler.
handle_client_malloc(ok) ==
    /\ srv.pc = "malloc"
    /\ srv' = IF ok
              THEN [srv EXCEPT !.recv_buf = "live", !.pc = "test"]
              ELSE [srv EXCEPT !.client_fd = "closed", !.closes = @ + 1,
                               !.exit_reason = "malloc", !.pc = "done"]
    /\ UNCHANGED clientvars

\* while (g_running)
handle_client_test ==
    /\ srv.pc = "test"
    /\ srv' = IF srv.g_running
              THEN [srv EXCEPT !.pc = "recv"]
              ELSE [srv EXCEPT !.pc = "finish", !.exit_reason = "shutdown"]
    /\ UNCHANGED clientvars

\* Received counting the size asked for in place of the count returned.
ReceivedAsked(bytes, len) == len

\* What a receive of bytes into a buffer of len adds to total_bytes.
Received(bytes, len) == bytes

\* bytes = recv(client_fd, recv_buf, msg_size, 0); if (bytes <= 0) break;
\* total_bytes += bytes;
handle_client_recv ==
    /\ srv.pc = "recv"
    /\ \E b \in RecvResults(srv.inbuf, srv.msg_size, FALSE) :
          srv' = IF b <= 0
                 THEN [srv EXCEPT !.bytes = b, !.rets = Append(@, b),
                                  !.exit_reason = IF b = 0 THEN "closed" ELSE "error",
                                  !.pc = "finish"]
                 ELSE [srv EXCEPT !.bytes = b, !.rets = Append(@, b),
                                  !.inbuf = @ - b,
                                  !.total_bytes = @ + Received(b, srv.msg_size),
                                  !.pc = "test"]
    /\ UNCHANGED clientvars

\* The lines behind the loop: the total is printed, recv_buf is freed and
\* the connection is closed.
handle_client_finish ==
    /\ srv.pc = "finish"
    /\ srv' = [srv EXCEPT !.printed = TRUE, !.recv_buf = "freed",
                          !.client_fd = "closed", !.closes = @ + 1,
                          !.pc = "done"]
    /\ UNCHANGED clientvars

\* A handler that has just been started on an accepted connection.  Its peer
\* has written the Config of some client; or it has written part of one, or
\* nothing, and has closed or reset the connection.
InitServer ==
    /\ strategy = "zero_copy"
    /\ msg_size = NUM_FIELDS
    /\ duration \in Durations
    /\ threads = 1
    /\ InitCommon
    /\ \E m \in MsgSizes, d \in Durations,
          n \in {0, ConfigSize - 1, ConfigSize},
          p \in {"open", "closed", "reset"} :
          /\ n < ConfigSize => p # "open"
          /\ srv = [ServerIdle EXCEPT !.pc = "config", !.peer = p,
                                      !.cfg_in = Prefix(ConfigBytes(m, d), n)]

NextServer ==
    \/ \E n \in ChunkSizes : peer_send(n)
    \/ \E how \in {"closed", "reset"} : peer_close(how)
    \/ handle_signal
    \/ handle_client_config
    \/ \E ok \in BOOLEAN : handle_client_malloc(ok)
    \/ handle_client_test
    \/ handle_client_recv
    \/ handle_client_finish

SpecServer == InitServer /\ [][NextServer]_vars

(* --------------------------- specifications --------------------------- *)
Next ==
    \/ Tick
    \/ \E created \in BOOLEAN : main_spawn(created)
    \/ main_spawned
    \/ main_join
    \/ main_aggregate
    \/ \E w \in Threads, ok \in BOOLEAN : client_connect(w, ok)
    \/ \E w \in Threads, ok \in BOOLEAN : client_setsockopt(w, ok)
    \/ \E w \in Threads, r \in HandshakeResults : client_handshake(w, r)
    \/ \E w \in Threads, m \in MallocOutcomes :
          \E tail \in HeapTails(msg_size) \cup {<<>>} : client_alloc(w, m, tail)
    \/ \E w \in Threads : client_loop(w)
    \/ \E w \in Threads : client_final_drain(w)
    \/ \E w \in Threads : client_record(w)
    \/ \E w \in Threads : client_free(w)
    \/ \E w \in Threads : client_close(w)
    \/ \E w \in Threads, k \in 1 .. PinLimit, merge \in BOOLEAN :
          KernelComplete(w, k, merge)

Spec == Init /\ [][Next]_vars

\* The zero-copy client alone, one worker, the smallest valid msg_size.
InitZC ==
    /\ strategy = "zero_copy"
    /\ msg_size = NUM_FIELDS
    /\ duration \in Durations
    /\ threads = 1
    /\ InitCommon
    /\ srv = ServerIdle

SpecZC == InitZC /\ [][Next]_vars

\* Two workers side by side, any of the three programs, the smallest valid
\* msg_size.
InitPool ==
    /\ strategy \in Strategies
    /\ msg_size = NUM_FIELDS
    /\ duration \in Durations
    /\ threads = 2
    /\ InitCommon
    /\ srv = ServerIdle

SpecPool == InitPool /\ [][Next]_vars

\* Results a worker may have left in targs[i]: nothing, small runs, and a run
\* of a gigabyte in 8 seconds.
SyntheticResults ==
    { ZeroResult,
      [bytes_transferred |-> NUM_FIELDS, elapsed_time |-> 1, avg_latency_us |-> Rat(10, 1)],
      [bytes_transferred |-> 2 * NUM_FIELDS, elapsed_time |-> 2, avg_latency_us |-> Rat(20, 1)],
      [bytes_transferred |-> 3 * NUM_FIELDS, elapsed_time |-> 3, avg_latency_us |-> Rat(5, 2)],
      [bytes_transferred |-> GIGA, elapsed_time |-> 8, avg_latency_us |-> Rat(30, 1)] }

\* main at the start of its join loop when every worker has already returned,
\* with any results in targs.  The workers' own state and the clock are not
\* read any more and are left as they start.  At most two workers have the
\* gigabyte result.
InitAgg ==
    /\ srv = ServerIdle
    /\ strategy \in Strategies
    /\ msg_size = NUM_FIELDS
    /\ duration \in Durations
    /\ threads \in 1 .. MaxThreads
    /\ now = 0
    /\ proc = "running"
    /\ mpc = "join"
    /\ mi = 0
    /\ report = [printed |-> FALSE, total_bytes |-> 0, elapsed |-> 0,
                 avg_latency |-> RatZero, throughput |-> RatZero]
    /\ loc = [w \in Threads |-> InitLocals]
    /\ sock = [w \in Threads |-> InitSock]
    /\ msg = [w \in Threads |-> InitMsg]
    /\ send_buf = [w \in Threads |-> InitBuf]
    /\ gh = [w \in Threads |-> InitHistory]
    /\ pc = [w \in Threads |-> IF w < threads THEN "done" ELSE "unborn"]
    /\ targs \in [Threads -> SyntheticResults]
    /\ \A w \in Threads : w >= threads => targs[w] = ZeroResult
    /\ Cardinality({w \in Threads : targs[w].bytes_transferred = GIGA}) <= 2

\* The join loop and the aggregation.
NextAgg == main_join \/ main_aggregate

SpecAgg == InitAgg /\ [][NextAgg]_vars

\* The clock advances, a runnable thread is eventually scheduled, and the
\* kernel eventually completes a transmission in flight.
Fairness ==
    /\ WF_vars(Tick)
    /\ \A w \in Threads :
         /\ WF_vars(client_loop(w))
         /\ WF_vars(\E k \in 1 .. PinLimit, merge \in BOOLEAN : KernelComplete(w, k, merge))

SpecZCFair == InitZC /\ [][Next]_vars /\ Fairness

\* While a step is possible one is taken: the clock advances, every call
\* returns and a runnable thread runs.  (No behaviour of the model repeats a
\* state, so this is all the scheduling has to guarantee.)
FairProgress == WF_vars(Next)

SpecPoolFair == InitPool /\ [][Next]_vars /\ FairProgress

(* ------------------------------- claims ------------------------------- *)
AfterLoop == {"record", "free", "close", "done"}

\* C1: free_message never runs while a zero-copy transmission of the worker
\* is unacknowledged: on every step that frees the Message Store the number
\* of zero-copy sends without a consumed completion is zero.
C1_NoFreeWhileOutstanding ==
    [][\A w \in Threads :
         (msg[w].state = "live" /\ msg'[w].state = "freed") => Outstanding(w) = 0]_vars

\* C2: the outstanding-completion count of every worker is never negative and
\* is zero once the final drain behind the loop has run.
C2_CompletionAccounting ==
    \A w \in Threads :
        /\ Outstanding(w) >= 0
        /\ gh[w].final_drains >= 1 => Outstanding(w) = 0

\* C3: in the zero-copy client, however the send loop was left, exactly one
\* final drain_completions call is made, before free_message and before the
\* connection is closed, and none is made while the loop still runs.
C3_OneFinalDrain ==
    \A w \in Threads :
        strategy = "zero_copy" =>
            /\ gh[w].final_drains <= 1
            /\ gh[w].exit_reason = "none" => gh[w].final_drains = 0
            /\ (gh[w].exit_reason # "none" /\ pc[w] \in AfterLoop)
                   => gh[w].final_drains = 1
            /\ (gh[w].exit_reason # "none" /\ msg[w].state = "freed")
                   => gh[w].final_drains = 1
            /\ (gh[w].exit_reason # "none" /\ sock[w].state = "closed")
                   => gh[w].final_drains = 1

\* A zero-copy worker whose loop ended on a send error other than a reset has
\* made its one final drain, freed its message and closed its socket.
C3_Witness ==
    \E w \in Threads :
        /\ strategy = "zero_copy"
        /\ gh[w].exit_reason = "error"
        /\ pc[w] = "done"
        /\ gh[w].final_drains = 1
        /\ msg[w].state = "freed"
        /\ sock[w].state = "closed"

\* C4: a pass of the zero-copy loop whose sendmsg fails with ENOBUFS makes a
\* drain and leaves total_bytes, msg_count, total_latency and drain_counter
\* as they were and the worker in the loop; total_bytes changes only in a
\* pass whose send succeeded, by the count that send returned.
C4_EnobufsFrame ==
    [][\A w \in Threads :
         (strategy = "zero_copy" /\ pc[w] = "loop"
            /\ gh'[w].iters = gh[w].iters + 1) =>
            /\ (loc'[w].sent < 0 /\ loc'[w].errno = ENOBUFS) =>
                  /\ gh'[w].drain_calls = gh[w].drain_calls + 1
                  /\ sock'[w].errq = <<>>
                  /\ loc'[w].total_bytes = loc[w].total_bytes
                  /\ loc'[w].msg_count = loc[w].msg_count
                  /\ loc'[w].total_latency = loc[w].total_latency
                  /\ loc'[w].drain_counter = loc[w].drain_counter
                  /\ sock'[w].wire = sock[w].wire
                  /\ pc'[w] = "loop"
            /\ loc'[w].total_bytes # loc[w].total_bytes =>
                  /\ loc'[w].sent > 0
                  /\ loc'[w].total_bytes = loc[w].total_bytes + loc'[w].sent]_vars

\* A zero-copy worker still in its loop that was refused with ENOBUFS, drained,
\* and then sent again: two whole messages are counted, each once.
C4_Witness ==
    \E w \in Threads :
        /\ strategy = "zero_copy"
        /\ pc[w] = "loop"
        /\ gh[w].drain_calls >= 1
        /\ loc[w].sent > 0
        /\ loc[w].msg_count = 2
        /\ gh[w].iters = 3
        /\ loc[w].total_bytes = 2 * NUM_FIELDS * msg[w].field_size

\* C5: (under Fairness) a worker in its loop whose last sendmsg failed with
\* ENOBUFS eventually completes a send or leaves the loop.
C5_NoPermanentStall ==
    \A w \in Threads :
        (pc[w] = "loop" /\ loc[w].sent < 0 /\ loc[w].errno = ENOBUFS)
            ~> (pc[w] # "loop" \/ loc[w].sent >= 0)

\* A worker left its loop on the duration check right after an ENOBUFS pass.
C5_Witness ==
    \E w \in Threads :
        /\ strategy = "zero_copy"
        /\ pc[w] = "final_drain"
        /\ gh[w].exit_reason = "duration"
        /\ loc[w].sent < 0
        /\ loc[w].errno = ENOBUFS
        /\ gh[w].drain_calls >= 1

\* The bytes written to w's connection behind the handshake.
Payload(w) == SubSeq(sock[w].wire, ConfigSize + 1, Len(sock[w].wire))

RECURSIVE Repeat(_, _)
\* n copies of the sequence s, one after the other.
Repeat(s, n) == IF n <= 0 THEN <<>> ELSE s \o Repeat(s, n - 1)

\* The stream the claims expect for n messages of payload size m: n times
\* the 8 fields of m / 8 bytes, field i filled with 'A' + i.
ExpectedStream(m, n) ==
    Repeat(Concat([i \in 1 .. NUM_FIELDS |-> [j \in 1 .. (m \div NUM_FIELDS) |-> 65 + (i - 1)]]), n)

\* C6: with a payload size below 8 the configuration error is raised before
\* any connection is attempted: no worker has called connect or sent the
\* handshake when the process aborts.
C6_RejectBeforeConnect ==
    proc = "exit_config" =>
        \A w \in Threads :
            /\ gh[w].connects = 0
            /\ gh[w].hs_calls = 0
            /\ sock[w].wire = <<>>

\* C7: for every payload size >= 8 and every client, field_size is
\* payload_size / 8 and a pass of the loop that sends a whole message puts
\* exactly 8 * field_size bytes on the connection and adds exactly that to
\* total_bytes.
C7_WholeMessageBytes ==
    [][\A w \in Threads :
         (msg_size >= NUM_FIELDS /\ pc[w] = "loop"
            /\ gh'[w].full = gh[w].full + 1) =>
            /\ msg[w].field_size = msg_size \div NUM_FIELDS
            /\ Len(sock'[w].wire) = Len(sock[w].wire) + NUM_FIELDS * msg[w].field_size
            /\ loc'[w].total_bytes = loc[w].total_bytes + NUM_FIELDS * msg[w].field_size]_vars

\* C8: whatever the client, after n whole messages (no short sendmsg, no send
\* that failed part-way) the bytes behind the handshake are n repetitions of
\* the 8 fields, a stream that depends on the payload size and n alone.
C8_SameStream ==
    \A w \in Threads :
        (gh[w].hs_ret = ConfigSize /\ gh[w].short = 0
           /\ gh[w].exit_reason \in {"none", "duration"}) =>
            Payload(w) = ExpectedStream(msg_size, gh[w].full)

\* C9: in the two-copy and the one-copy client the bytes_transferred a worker
\* reports is a multiple of field_size.
C9_BytesMultipleOfField ==
    \A w \in Threads :
        (strategy \in {"two_copy", "one_copy"} /\ msg[w].field_size > 0) =>
            targs[w].bytes_transferred % msg[w].field_size = 0

\* C10: on every connection the config is sent once, after connect and before
\* anything else: the bytes on the connection start with the handshake, and a
\* connection whose handshake was not written whole carries nothing behind it.
C10_HandshakeFirst ==
    \A w \in Threads :
        /\ gh[w].hs_calls <= 1
        /\ gh[w].hs_calls = 0 => sock[w].wire = <<>>
        /\ gh[w].hs_calls = 1 => gh[w].connects = 1 /\ sock[w].state # "none"
        /\ pc[w] \in {"alloc", "loop", "final_drain", "record", "free", "close"}
              => gh[w].hs_calls = 1 /\ gh[w].hs_ret = ConfigSize
        /\ gh[w].iters > 0 => gh[w].hs_ret = ConfigSize
        /\ (gh[w].hs_calls = 1 /\ gh[w].hs_ret = ConfigSize)
              => Prefix(sock[w].wire, ConfigSize) = ConfigBytes(msg_size, duration)
        /\ (gh[w].hs_calls = 1 /\ gh[w].hs_ret # ConfigSize)
              => /\ sock[w].wire = Prefix(ConfigBytes(msg_size, duration), gh[w].hs_ret)
                 /\ msg[w].state = "none"

\* A connection that carries payload bytes behind a handshake written whole.
C10_Witness ==
    \E w \in Threads :
        /\ gh[w].hs_calls = 1
        /\ gh[w].hs_ret = ConfigSize
        /\ Len(sock[w].wire) > ConfigSize
        /\ Prefix(sock[w].wire, ConfigSize) = ConfigBytes(msg_size, duration)

(* ------------------------- failures during setup ----------------------- *)
\* Worker w's handshake send has returned something other than sizeof(config).
HandshakeFailed(w) == gh[w].hs_calls = 1 /\ gh[w].hs_ret # ConfigSize

\* Nothing that belongs to worker v changes in the step.
WorkerUntouched(v) ==
    /\ pc'[v] = pc[v]
    /\ targs'[v] = targs[v]
    /\ loc'[v] = loc[v]
    /\ sock'[v] = sock[v]
    /\ msg'[v] = msg[v]
    /\ send_buf'[v] = send_buf[v]
    /\ gh'[v] = gh[v]

\* C11: a worker whose handshake send returns anything but the full size of
\* the config closes its connection and terminates: it has no message store
\* and no send buffer, never enters the send loop and never writes its result;
\* the step in which it fails leaves the process running and every other
\* worker as it was.
C11_HandshakeFailure ==
    /\ [](\A w \in Threads :
            HandshakeFailed(w) =>
                /\ pc[w] = "done"
                /\ sock[w].state = "closed"
                /\ gh[w].closes = 1
                /\ msg[w].state = "none"
                /\ send_buf[w].state = "none"
                /\ gh[w].iters = 0
                /\ gh[w].records = 0
                /\ targs[w].bytes_transferred = 0
                /\ targs[w].elapsed_time = 0
                /\ targs[w].avg_latency_us = RatZero)
    /\ [][\A w \in Threads :
            (gh[w].hs_calls = 0 /\ gh'[w].hs_calls = 1 /\ gh'[w].hs_ret # ConfigSize)
                => /\ proc' = proc
                   /\ \A v \in Threads \ {w} : WorkerUntouched(v)]_vars

\* One worker's handshake failed, and the other worker has sent a message,
\* written its result and been aggregated.
C11_Witness ==
    \E w, v \in Threads :
        /\ w # v
        /\ HandshakeFailed(w)
        /\ gh[w].hs_ret = ConfigSize \div 2
        /\ gh[v].records = 1
        /\ targs[v].bytes_transferred > 0
        /\ report.printed
        /\ report.total_bytes = targs[v].bytes_transferred

\* Worker w's connect_to_server has failed.
ConnectFailed(w) == gh[w].connects = 1 /\ sock[w].state = "none"

\* The workers main has created.
Created == {w \in Threads : w < threads}

RECURSIVE BytesOf(_)
\* The bytes_transferred of the workers in S, added up.
BytesOf(S) ==
    IF S = {} THEN 0
    ELSE LET w == CHOOSE x \in S : TRUE
         IN  targs[w].bytes_transferred + BytesOf(S \ {w})

\* C12: a worker whose connect fails terminates with its result still
\* bytes_transferred = 0, elapsed_time = 0, avg_latency_us = 0 and with nothing
\* sent on its connection; the failing step leaves the process running and the
\* other workers as they were, and the total printed by main is the sum of the
\* bytes of the workers that did connect.
C12_ConnectFailure ==
    /\ [](\A w \in Threads :
            ConnectFailed(w) =>
                /\ pc[w] = "done"
                /\ targs[w].bytes_transferred = 0
                /\ targs[w].elapsed_time = 0
                /\ targs[w].avg_latency_us = [n |-> 0, d |-> 1]
                /\ sock[w].wire = <<>>
                /\ gh[w].hs_calls = 0
                /\ gh[w].iters = 0
                /\ gh[w].records = 0)
    /\ [][\A w \in Threads :
            (gh[w].connects = 0 /\ gh'[w].connects = 1 /\ sock'[w].state = "none")
                => /\ proc' = proc
                   /\ \A v \in Threads \ {w} : WorkerUntouched(v)]_vars
    /\ [](report.printed =>
            report.total_bytes = BytesOf({w \in Created : ~ConnectFailed(w)}))

\* One worker failed to connect; the other one sent a message and main printed
\* a total that is this worker's bytes.
C12_Witness ==
    \E w, v \in Created :
        /\ w # v
        /\ ConnectFailed(w)
        /\ gh[v].full = 1
        /\ targs[v].bytes_transferred = msg_size
        /\ report.printed
        /\ report.total_bytes = msg_size

(* ------------------------------ the barrier ---------------------------- *)
\* C13: main reads the result fields only in the aggregation that follows the
\* join loop, and every step that reads them (and prints the report) starts
\* in a state where every created worker has terminated; during the join loop
\* the workers already joined have terminated.
C13_JoinAllBarrier ==
    /\ [][report' # report => \A w \in Created : pc[w] = "done"]_vars
    /\ [](report.printed => \A w \in Created : pc[w] = "done")
    /\ [](mpc = "join" => \A w \in Created : w < mi => pc[w] = "done")

\* Both workers have sent a message and recorded a result, and main has
\* aggregated the two results.
C13_Witness ==
    /\ threads = 2
    /\ \A w \in Created : gh[w].records = 1 /\ targs[w].bytes_transferred > 0
    /\ report.printed
    /\ report.total_bytes = 2 * msg_size

(* --------------------------- result ownership -------------------------- *)
\* Worker v takes the step.
Acts(v) ==
    /\ pc[v] # "unborn"
    /\ pc'[v] # pc[v] \/ gh'[v] # gh[v] \/ loc'[v] # loc[v]

\* C14 as stated, in its first part: every terminated worker has written its
\* result exactly once.
C14_WrittenExactlyOnce ==
    \A w \in Created : pc[w] = "done" => gh[w].records = 1

\* C14, amended: a worker writes its result at most once; it writes it exactly
\* once, after its send loop has ended, when it reached the send loop, and
\* never when its connect, its handshake or its send_buf allocation failed.
\* Apart from main's initialisation before the thread exists, a result changes
\* only in its owner's recording step, and a step taken by one worker changes
\* no result, connection, message or send buffer of another worker.
C14_ResultOwnership ==
    /\ [](\A w \in Threads :
            /\ gh[w].records <= 1
            /\ gh[w].records = 1
                  => gh[w].exit_reason # "none" /\ pc[w] \in {"free", "close", "done"}
            /\ (pc[w] = "done" /\ gh[w].exit_reason # "none") => gh[w].records = 1
            /\ (pc[w] = "done" /\ gh[w].exit_reason = "none")
                  => /\ gh[w].records = 0
                     /\ ConnectFailed(w) \/ HandshakeFailed(w)
                           \/ (strategy = "two_copy" /\ msg[w].state = "freed"))
    /\ [][\A w \in Threads :
            targs'[w] # targs[w]
                => \/ pc[w] = "unborn" /\ mpc = "spawn" /\ mi = w
                   \/ /\ pc[w] = "record"
                      /\ pc'[w] = "free"
                      /\ gh[w].exit_reason # "none"
                      /\ gh'[w].records = 1]_vars
    /\ [][\A v \in Threads :
            Acts(v) => \A w \in Threads \ {v} :
                          /\ targs'[w] = targs[w]
                          /\ sock'[w] = sock[w]
                          /\ msg'[w] = msg[w]
                          /\ send_buf'[w] = send_buf[w]]_vars

\* One worker has left its loop after a whole message and written its result
\* while the other worker is still in its send loop.
C14_Witness ==
    \E w, v \in Created :
        /\ w # v
        /\ pc[w] = "done"
        /\ gh[w].records = 1
        /\ gh[w].full = 1
        /\ targs[w].bytes_transferred = msg_size
        /\ pc[v] = "loop"
        /\ gh[v].iters = 1

(* ----------------------------- aggregation ----------------------------- *)
RECURSIVE LatencyOf(_)
\* The avg_latency_us of the workers in S, added up.
LatencyOf(S) ==
    IF S = {} THEN RatZero
    ELSE LET w == CHOOSE x \in S : TRUE
         IN  RatAdd(targs[w].avg_latency_us, LatencyOf(S \ {w}))

\* C15: the printed total is the sum of the workers' bytes_transferred, the
\* printed elapsed time is the largest elapsed_time, and the printed latency
\* times the number of workers is the sum of the workers' average latencies;
\* workers with averages 10, 20 and 30 give 20.
C15_Aggregation ==
    report.printed =>
        /\ report.total_bytes = BytesOf(Created)
        /\ \A w \in Created : targs[w].elapsed_time <= report.elapsed
        /\ \E w \in Created : targs[w].elapsed_time = report.elapsed
        /\ RatMul(report.avg_latency, [n |-> threads, d |-> 1]) = LatencyOf(Created)
        /\ (/\ threads = 3
            /\ targs[0].avg_latency_us = [n |-> 10, d |-> 1]
            /\ targs[1].avg_latency_us = [n |-> 20, d |-> 1]
            /\ targs[2].avg_latency_us = [n |-> 30, d |-> 1])
              => report.avg_latency = [n |-> 20, d |-> 1]

\* Three workers with averages 10, 20 and 30 have been aggregated.
C15_Witness ==
    /\ report.printed
    /\ threads = 3
    /\ targs[0].avg_latency_us = [n |-> 10, d |-> 1]
    /\ targs[1].avg_latency_us = [n |-> 20, d |-> 1]
    /\ targs[2].avg_latency_us = [n |-> 30, d |-> 1]
    /\ report.avg_latency = [n |-> 20, d |-> 1]
    /\ report.total_bytes = GIGA + 3 * NUM_FIELDS
    /\ report.elapsed = 8

\* C16: the printed throughput t is total_bytes * 8 / (elapsed * 1e9): for
\* elapsed > 0, t * elapsed = total_bytes / (1e9 / 8); a gigabyte in 8 seconds
\* gives 1.  (With elapsed = 0 the quotient is not a finite number.)
C16_Throughput ==
    report.printed =>
        /\ report.elapsed > 0
              => /\ report.throughput.d > 0
                 /\ RatMul(report.throughput, [n |-> report.elapsed, d |-> 1])
                       = Rat(report.total_bytes, GIGA \div 8)
        /\ report.elapsed = 0 => report.throughput.d = 0
        /\ (report.total_bytes = GIGA /\ report.elapsed = 8)
              => report.throughput = [n |-> 1, d |-> 1]

\* A gigabyte sent in 8 seconds has been reported as 1 Gbps.
C16_Witness ==
    /\ report.printed
    /\ report.total_bytes = GIGA
    /\ report.elapsed = 8
    /\ report.throughput = [n |-> 1, d |-> 1]

(* ------------------------------- send_all ------------------------------ *)
\* Worker w performs a pass of its loop body in the step.
Pass(w) == pc[w] = "loop" /\ gh'[w].iters = gh[w].iters + 1

\* C17: whenever send_all of the two-copy client returns without a terminal
\* error, after any partial acceptances and interrupted calls, it returns len
\* (msg_size) and the connection has received exactly the len bytes of the
\* buffer, in order and once each, behind what it carried before.
C17_SendAllResumes ==
    [][\A w \in Threads :
          (strategy = "two_copy" /\ Pass(w) /\ loc'[w].sent >= 0)
              => /\ loc'[w].sent = msg_size
                 /\ Len(send_buf'[w].bytes) = msg_size
                 /\ sock'[w].wire = sock[w].wire \o send_buf'[w].bytes]_vars

\* A send_all that needed two send() calls, the first of which accepted only
\* a part of the buffer, has returned len.
C17_Witness ==
    \E w \in Threads :
        /\ strategy = "two_copy"
        /\ msg_size > NUM_FIELDS
        /\ gh[w].full = 1
        /\ gh[w].calls = 2
        /\ gh[w].eintrs = 0
        /\ loc[w].sent = msg_size
        /\ Len(sock[w].wire) = ConfigSize + msg_size

(* ------------------------------ send errors ---------------------------- *)
\* The step changes none of worker w's three accumulators.
SameTotals(w) ==
    /\ loc'[w].total_bytes = loc[w].total_bytes
    /\ loc'[w].msg_count = loc[w].msg_count
    /\ loc'[w].total_latency = loc[w].total_latency

\* C18: an interrupted send never ends the loop and is never accounted.  In
\* the one-copy and zero-copy clients a pass whose sendmsg fails with EINTR
\* leaves the worker in its loop with the three accumulators, the connection
\* and the exit reason as they were.  In the two-copy client EINTR is never
\* the error send_all fails with, and a send_all that was interrupted and then
\* completed is accounted as one message of msg_size bytes, like one that was
\* not interrupted.
C18_EintrRetried ==
    [][\A w \in Threads :
          Pass(w) =>
              /\ (strategy # "two_copy" /\ loc'[w].sent < 0 /\ loc'[w].errno = EINTR)
                    => /\ pc'[w] = "loop"
                       /\ SameTotals(w)
                       /\ sock'[w] = sock[w]
                       /\ gh'[w].exit_reason = "none"
                       /\ gh'[w].eintrs = gh[w].eintrs + 1
              /\ (strategy = "two_copy" /\ loc'[w].sent < 0)
                    => loc'[w].errno # EINTR
              /\ (strategy = "two_copy" /\ gh'[w].eintrs > 0 /\ loc'[w].sent >= 0)
                    => /\ pc'[w] = "loop"
                       /\ gh'[w].exit_reason = "none"
                       /\ loc'[w].total_bytes = loc[w].total_bytes + msg_size
                       /\ loc'[w].msg_count = loc[w].msg_count + 1]_vars

\* A worker was interrupted in a send, sent a whole message afterwards, and
\* has terminated with exactly that message in its result.
C18_Witness ==
    \E w \in Threads :
        /\ gh[w].eintrs >= 1
        /\ gh[w].full = 1
        /\ gh[w].short = 0
        /\ gh[w].exit_reason = "duration"
        /\ pc[w] = "done"
        /\ targs[w].bytes_transferred = NUM_FIELDS * FieldSize(msg_size)

\* The bytes of the sends that succeeded: whole send_all calls in the two-copy
\* client, what sendmsg put on the connection in the others.
SucceededBytes(w) ==
    IF strategy = "two_copy" THEN gh[w].full * msg_size ELSE Len(Payload(w))

\* C19: a send that fails with EPIPE, ECONNRESET or another error that is not
\* retried ends the worker's loop and leaves the process running: the worker
\* goes on to record its result, and the bytes_transferred it has written
\* when it terminates is the sum of the counts of the sends that succeeded.
C19_PartialMetrics ==
    /\ [](\A w \in Threads :
            gh[w].exit_reason \in {"reset", "error"}
                => /\ proc \in {"running", "exit_ok"}
                   /\ pc[w] \in {"final_drain", "record", "free", "close", "done"}
                   /\ loc[w].total_bytes = SucceededBytes(w)
                   /\ pc[w] \in {"free", "close", "done"}
                         => /\ gh[w].records = 1
                            /\ targs[w].bytes_transferred = SucceededBytes(w)
                   /\ proc = "exit_ok" => pc[w] = "done")
    /\ [][\A w \in Threads :
            (gh[w].exit_reason = "none" /\ gh'[w].exit_reason \in {"reset", "error"})
                => /\ proc' = "running"
                   /\ loc'[w].sent < 0
                   /\ SameTotals(w)]_vars

\* A worker sent two whole messages, failed in its third send with an error
\* that is neither a reset nor retried, and terminated with the bytes of the
\* two messages in its result.
C19_Witness ==
    \E w \in Threads :
        /\ gh[w].exit_reason = "error"
        /\ loc[w].errno = EIO
        /\ gh[w].full = 2
        /\ gh[w].short = 0
        /\ pc[w] = "done"
        /\ gh[w].records = 1
        /\ targs[w].bytes_transferred = 2 * NUM_FIELDS * FieldSize(msg_size)
        /\ proc = "exit_ok"

(* --------------------------- allocation failure ------------------------ *)
\* C20 as stated: every malloc failure of a worker ends the whole process.
C20_AllocFailureFatal ==
    \A w \in Threads : gh[w].alloc_fail # "none" => proc = "exit_alloc"

\* C20, amended: a failed malloc of the message structure or of a field ends
\* the whole process, with the worker stopped where it was; a failed malloc of
\* the two-copy client's send_buf ends only the worker, which frees its
\* message, closes its connection and returns without a send and without
\* writing its result, and the process goes on.
C20_AllocFailure ==
    \A w \in Threads :
        /\ gh[w].alloc_fail \in {"msg", "field"}
              => /\ proc = "exit_alloc"
                 /\ pc[w] = "alloc"
        /\ gh[w].alloc_fail = "buf"
              => /\ strategy = "two_copy"
                 /\ proc \in {"running", "exit_ok"}
                 /\ pc[w] = "done"
                 /\ msg[w].state = "freed"
                 /\ send_buf[w].state = "none"
                 /\ sock[w].state = "closed"
                 /\ gh[w].iters = 0
                 /\ gh[w].records = 0
        /\ proc = "exit_alloc" => \E v \in Threads : gh[v].alloc_fail \in {"msg", "field"}

\* The worker's send_buf could not be allocated, the worker returned, and
\* main joined it and printed a report of zero bytes.
C20_Witness ==
    \E w \in Threads :
        /\ gh[w].alloc_fail = "buf"
        /\ pc[w] = "done"
        /\ proc = "exit_ok"
        /\ report.printed
        /\ report.total_bytes = 0

(* ------------------------- zero-copy capability ------------------------ *)
\* Worker w of the zero-copy client is past a setsockopt(SO_ZEROCOPY) that
\* failed.
Rejected(w) ==
    /\ strategy = "zero_copy"
    /\ sock[w].state # "none"
    /\ pc[w] # "setsockopt"
    /\ ~sock[w].zerocopy

\* C21: the setsockopt step leads to the handshake with the process running
\* and the connection open and unused, whether the option was accepted or
\* not; a worker whose option was refused never pins a transmission, enters
\* the loop only after a whole handshake, and when it has left the loop and
\* terminated it has written its result.
C21_ZerocopyRejection ==
    /\ [][\A w \in Threads :
            (pc[w] = "setsockopt" /\ pc'[w] # "setsockopt")
                => /\ pc'[w] = "handshake"
                   /\ proc' = "running"
                   /\ sock'[w].state = "open"
                   /\ sock'[w].wire = <<>>
                   /\ gh'[w] = gh[w]]_vars
    /\ [](\A w \in Threads :
            Rejected(w) =>
                /\ gh[w].zc_sent = 0
                /\ sock[w].inflight = 0
                /\ sock[w].errq = <<>>
                /\ gh[w].iters > 0 => gh[w].hs_ret = ConfigSize
                /\ (pc[w] = "done" /\ gh[w].exit_reason # "none")
                      => /\ gh[w].records = 1
                         /\ gh[w].final_drains = 1
                         /\ targs[w].bytes_transferred = Len(Payload(w)))

\* A worker whose option was refused sent two whole messages, left the loop
\* when the duration was over and terminated with both in its result.
C21_Witness ==
    \E w \in Threads :
        /\ Rejected(w)
        /\ gh[w].hs_ret = ConfigSize
        /\ gh[w].full = 2
        /\ gh[w].short = 0
        /\ gh[w].exit_reason = "duration"
        /\ pc[w] = "done"
        /\ gh[w].records = 1
        /\ targs[w].bytes_transferred = 2 * msg_size

C23_ShortSendmsg ==
    [][\A w \in Threads :
          (strategy = "one_copy" /\ Pass(w) /\ loc'[w].sent >= 0)
              => /\ sock'[w].wire = sock[w].wire \o Prefix(IovBytes(msg[w]), loc'[w].sent)
                 /\ loc'[w].sent <= NUM_FIELDS * msg[w].field_size
                 /\ loc'[w].msg_count = loc[w].msg_count + 1
                 /\ loc'[w].total_bytes = loc[w].total_bytes + loc'[w].sent
                 /\ pc'[w] = "loop"
                 /\ msg'[w] = msg[w]]_vars

\* A short sendmsg was followed by a whole one: behind the handshake the
\* connection carries all but the last byte of a message and then a whole
\* message.
C23_Witness ==
    \E w \in Threads :
        /\ strategy = "one_copy"
        /\ gh[w].short = 1
        /\ gh[w].full = 1
        /\ Payload(w) = Prefix(IovBytes(msg[w]), NUM_FIELDS * msg[w].field_size - 1)
                           \o IovBytes(msg[w])

(* ---------------------------- periodic drain --------------------------- *)
\* Kernel states a zero-copy connection can be in between two sends: nothing
\* pinned, one transmission in flight, one notification queued.
DrainKernelStates ==
    {[inflight |-> 0, errq |-> <<>>], [inflight |-> 1, errq |-> <<>>],
     [inflight |-> 0, errq |-> <<1>>]}

\* The zero-copy client with one worker that has made DRAIN_PERIOD - 2 whole
\* sends of 8 bytes since it entered its loop, all within the first clock
\* tick and with latency samples of 0, and has made no periodic drain yet;
\* main waits in its join.  Either SO_ZEROCOPY was refused and nothing was
\* ever pinned, or every send but those the kernel still holds was completed
\* and then drained in an ENOBUFS pass (the last pass, when nothing is left
\* pinned).  iters counts the passes made from here on.
InitDrain ==
    /\ srv = ServerIdle
    /\ strategy = "zero_copy"
    /\ msg_size = NUM_FIELDS
    /\ duration \in Durations
    /\ threads = 1
    /\ now = 0
    /\ proc = "running"
    /\ mpc = "join"
    /\ mi = 0
    /\ report = [printed |-> FALSE, total_bytes |-> 0, elapsed |-> 0,
                 avg_latency |-> RatZero, throughput |-> RatZero]
    /\ pc = [w \in Threads |-> IF w = 0 THEN "loop" ELSE "unborn"]
    /\ targs = [w \in Threads |-> ZeroResult]
    /\ send_buf = [w \in Threads |-> InitBuf]
    /\ msg = [w \in Threads |->
                IF w = 0 THEN [state |-> "live", field_size |-> FieldSize(NUM_FIELDS),
                               fields |-> AllocFields(FieldSize(NUM_FIELDS))]
                ELSE InitMsg]
    /\ \E zc \in BOOLEAN, k \in DrainKernelStates :
          /\ ~zc => k.inflight = 0 /\ k.errq = <<>>
          /\ loc = [w \in Threads |->
                      IF w = 0
                      THEN [InitLocals EXCEPT
                              !.total_bytes = (DRAIN_PERIOD - 2) * NUM_FIELDS,
                              !.msg_count = DRAIN_PERIOD - 2,
                              !.drain_counter = DRAIN_PERIOD - 2,
                              !.sent = IF zc /\ k.inflight = 0 /\ k.errq = <<>>
                                       THEN -1 ELSE NUM_FIELDS,
                              !.errno = IF zc THEN ENOBUFS ELSE 0]
                      ELSE InitLocals]
          /\ sock = [w \in Threads |->
                       IF w = 0
                       THEN [state |-> "open",
                             wire |-> ConfigBytes(NUM_FIELDS, duration)
                                        \o ExpectedStream(NUM_FIELDS, DRAIN_PERIOD - 2),
                             zerocopy |-> zc, inflight |-> k.inflight, errq |-> k.errq]
                       ELSE InitSock]
          /\ gh = [w \in Threads |->
                     IF w = 0
                     THEN [InitHistory EXCEPT
                             !.connects = 1, !.hs_calls = 1, !.hs_ret = ConfigSize,
                             !.full = DRAIN_PERIOD - 2,
                             !.zc_sent = IF zc THEN DRAIN_PERIOD - 2 ELSE 0,
                             !.zc_acked = IF zc THEN DRAIN_PERIOD - 2 - k.inflight
                                                       - SumSeq(k.errq)
                                          ELSE 0,
                             !.drain_calls = IF zc THEN DRAIN_PERIOD - 2 - k.inflight
                                                          - SumSeq(k.errq)
                                             ELSE 0]
                     ELSE InitHistory]

\* The rest of the run: the loop, the kernel, the teardown and main's join.
NextDrain ==
    \/ Tick
    \/ main_join
    \/ main_aggregate
    \/ \E w \in Threads : client_loop(w)
    \/ \E w \in Threads : client_final_drain(w)
    \/ \E w \in Threads : client_record(w)
    \/ \E w \in Threads : client_free(w)
    \/ \E w \in Threads : client_close(w)
    \/ \E w \in Threads, k \in 1 .. PinLimit, merge \in BOOLEAN :
          KernelComplete(w, k, merge)

SpecDrain == InitDrain /\ [][NextDrain]_vars

\* C24: at the start of every pass of the zero-copy loop drain_counter is
\* between 0 and 63.  A successful send made at 63 is followed, in the same
\* pass, by one drain_completions call that takes every notification the
\* kernel has delivered, none or some, and leaves the counter at 0 and the
\* worker in its loop; any other
\* successful send adds one to the counter without a drain, and a failed send
\* leaves the counter as it is.
C24_PeriodicDrain ==
    /\ [](\A w \in Threads :
            (strategy = "zero_copy" /\ pc[w] = "loop")
                => loc[w].drain_counter \in 0 .. (DRAIN_PERIOD - 1))
    /\ [][\A w \in Threads :
            (strategy = "zero_copy" /\ Pass(w)) =>
                IF loc'[w].sent < 0
                THEN loc'[w].drain_counter = loc[w].drain_counter
                ELSE IF loc[w].drain_counter = DRAIN_PERIOD - 1
                THEN /\ loc'[w].drain_counter = 0
                     /\ gh'[w].drain_calls = gh[w].drain_calls + 1
                     /\ sock'[w].errq = <<>>
                     /\ gh'[w].zc_acked - gh[w].zc_acked
                           = Pinned(w) + (gh'[w].zc_sent - gh[w].zc_sent)
                               - sock'[w].inflight
                     /\ pc'[w] = "loop"
                ELSE /\ loc'[w].drain_counter = loc[w].drain_counter + 1
                     /\ gh'[w].drain_calls = gh[w].drain_calls
                     /\ sock'[w].errq = sock[w].errq]_vars

\* The periodic drain behind the 64th send found the notification of that
\* send, took it, and the worker is back at the top of its loop.
C24_Witness ==
    \E w \in Threads :
        /\ pc[w] = "loop"
        /\ sock[w].zerocopy
        /\ loc[w].msg_count = DRAIN_PERIOD
        /\ loc[w].drain_counter = 0
        /\ gh[w].zc_acked = DRAIN_PERIOD

\* A step in which worker w calls drain_completions on the error queue as it
\* stands: the drain of an ENOBUFS pass, or the final drain.
DrainStep(w) ==
    /\ gh'[w].drain_calls = gh[w].drain_calls + 1
    /\ \/ pc[w] = "final_drain"
       \/ pc[w] = "loop" /\ loc'[w].sent < 0

\* C25: a drain_completions call reads every notification that is queued,
\* one per read, and returns at the read that finds none, Len(queue) + 1
\* reads in all; it takes nothing but what was queued, so transmissions
\* still in flight are in flight when it returns, and the worker goes on.
C25_DrainNonBlocking ==
    [][\A w \in Threads :
         DrainStep(w) =>
            LET d == drain_completions(sock[w].errq)
            IN  /\ d.reads = Len(sock[w].errq) + 1
                /\ d.errq = <<>>
                /\ sock'[w].errq = <<>>
                /\ gh'[w].zc_acked = gh[w].zc_acked + SumSeq(sock[w].errq)
                /\ sock'[w].inflight = sock[w].inflight
                /\ pc'[w] \in {"loop", "record"}]_vars

\* An ENOBUFS drain took a queued notification, and the final drain has
\* returned while the last transmission is still in flight.
C25_Witness ==
    \E w \in Threads :
        /\ pc[w] = "record"
        /\ gh[w].final_drains = 1
        /\ gh[w].zc_acked = 1
        /\ gh[w].drain_calls = 2
        /\ sock[w].inflight = 1

\* The receives of the handler's loop that returned data.
RECURSIVE SumPositive(_)
SumPositive(s) ==
    IF s = <<>> THEN 0
    ELSE (IF Head(s) > 0 THEN Head(s) ELSE 0) + SumPositive(Tail(s))

\* C26: the server's handler receives in its loop only behind a complete
\* Config of 8 bytes, and with an incomplete one it closes the connection
\* with nothing received or counted.  It stays in the loop behind every
\* receive that returned data and leaves it only when a receive returned 0
\* at the end of the stream, when a receive failed, or when it found the
\* shutdown flag set at the loop test.  Its total is at every moment, and so
\* when it is printed, the sum of the counts its receives returned.
C26_ServerHandler ==
    /\ [](/\ srv.rets # <<>> => srv.cfg_bytes = ConfigSize
          /\ srv.total_bytes = SumPositive(srv.rets)
          /\ (srv.pc = "done" /\ srv.cfg_bytes # ConfigSize)
                => /\ srv.client_fd = "closed" /\ srv.closes = 1
                   /\ srv.total_bytes = 0 /\ srv.rets = <<>>
                   /\ ~srv.printed
          /\ srv.printed => srv.pc = "done" /\ srv.closes = 1)
    /\ [][/\ (srv.pc \in {"test", "recv"} /\ srv'.pc = "finish") =>
                (\/ /\ srv.pc = "recv" /\ srv'.bytes = 0
                    /\ srv.peer = "closed" /\ srv.inbuf = 0
                 \/ srv.pc = "recv" /\ srv'.bytes < 0
                 \/ srv.pc = "test" /\ ~srv.g_running /\ srv'.rets = srv.rets)
          /\ (srv.pc = "recv" /\ srv'.rets # srv.rets /\ srv'.bytes > 0) =>
                (/\ srv'.pc = "test"
                 /\ srv'.total_bytes = srv.total_bytes + srv'.bytes)]_vars

\* The handler has received a whole buffer and a shorter count, has left its
\* loop at the end of the stream and has printed the total of the two.
C26_Witness ==
    /\ srv.pc = "done"
    /\ srv.printed
    /\ srv.exit_reason = "closed"
    /\ srv.rets = << srv.msg_size, 1, 0 >>
    /\ srv.total_bytes = srv.msg_size + 1

\* Worker w has returned from client_thread behind a successful connect.
TerminatedConnected(w) == pc[w] = "done" /\ sock[w].state # "none"

\* The closes and releases of w so far are those its position calls for: at
\* most one of each, none of a Message Store that was not allocated, and one
\* of each resource the worker had when it returned.
ClosedAndReleasedOnce(w) ==
    /\ gh[w].closes = (IF sock[w].state = "closed" THEN 1 ELSE 0)
    /\ gh[w].frees = (IF msg[w].state = "freed" THEN 1 ELSE 0)
    /\ TerminatedConnected(w) =>
          /\ sock[w].state = "closed"
          /\ msg[w].state \in {"none", "freed"}
          /\ send_buf[w].state \in {"none", "freed"}

\* The Message Store of w is read though it has been released: by the worker
\* in its send loop, or by a zero-copy transmission still in flight, which
\* sends from the pages of the fields.
UsedAfterRelease(w) ==
    /\ msg[w].state = "freed"
    /\ pc[w] = "loop" \/ sock[w].inflight > 0

\* C27: a worker that connected closes its connection exactly once on every
\* path by which it returns, releases its Message Store exactly once if it
\* allocated one, and the store is not used once it is released.
C27_ResourceLifecycle ==
    \A w \in Threads : ClosedAndReleasedOnce(w) /\ ~UsedAfterRelease(w)

\* C28: in each client a pass of the send loop whose send returned a count
\* adds one to msg_count, that count to total_bytes and a latency sample to
\* total_latency, and a pass whose send failed leaves all three; so msg_count
\* is the number of sends that succeeded, and in the two-copy client
\* total_bytes is msg_count * msg_size.  What the worker records is
\* total_bytes and total_latency / msg_count, or 0 when msg_count is 0.
C28_Accounting ==
    /\ [](\A w \in Threads :
            /\ loc[w].msg_count = gh[w].full + gh[w].short
            /\ gh[w].iters = 0 => loc[w].msg_count = 0 /\ loc[w].total_bytes = 0
            /\ strategy = "two_copy" =>
                  loc[w].total_bytes = loc[w].msg_count * msg_size
            /\ gh[w].records = 1 =>
                  /\ targs[w].bytes_transferred = loc[w].total_bytes
                  /\ targs[w].avg_latency_us =
                        IF loc[w].msg_count = 0 THEN RatZero
                        ELSE Rat(loc[w].total_latency, loc[w].msg_count))
    /\ [][\A w \in Threads :
            Pass(w) =>
                IF loc'[w].sent >= 0
                THEN /\ loc'[w].msg_count = loc[w].msg_count + 1
                     /\ loc'[w].total_bytes = loc[w].total_bytes + loc'[w].sent
                     /\ loc'[w].total_latency - loc[w].total_latency \in Latencies
                ELSE /\ loc'[w].msg_count = loc[w].msg_count
                     /\ loc'[w].total_bytes = loc[w].total_bytes
                     /\ loc'[w].total_latency = loc[w].total_latency]_vars

\* A two-copy worker has recorded two messages sent before a failed send,
\* with an average latency of one half.
C28_Witness ==
    \E w \in Threads :
        /\ strategy = "two_copy"
        /\ gh[w].records = 1
        /\ gh[w].exit_reason = "error"
        /\ loc[w].msg_count = 2
        /\ targs[w].bytes_transferred = 2 * msg_size
        /\ targs[w].avg_latency_us = [n |-> 1, d |-> 2]

\* C29: when pthread_create fails for worker i, main returns at once: the
\* process ends in the spawn loop at index i with the workers before i
\* created and none of them joined, no result read and no RESULT line
\* printed, and nothing of the process runs on.
C29_SpawnFailure ==
    /\ [](proc = "exit_spawn" =>
            /\ mpc = "spawn"
            /\ mi < threads
            /\ {w \in Threads : pc[w] # "unborn"} = 0 .. (mi - 1)
            /\ ~report.printed
            /\ report.total_bytes = 0)
    /\ [][proc = "exit_spawn" =>
            << proc, mpc, mi, report, pc, loc, gh >>'
                = << proc, mpc, mi, report, pc, loc, gh >>]_vars

\* pthread_create failed for the second worker while the first was in its
\* send loop with bytes sent.
C29_Witness ==
    /\ proc = "exit_spawn"
    /\ mi = 1
    /\ pc[0] = "loop"
    /\ loc[0].total_bytes > 0
    /\ ~report.printed

====
